---- MODULE Spec2Model ----
(***************************************************************************)
(* Model of the tic-tac-toe backend (src/tic_tac_toe_backend/src/api):     *)
(* the games, moves and match_history tables of db.py and the request      *)
(* handlers start_game and make_move of game.py.                           *)
(***************************************************************************)
EXTENDS Integers, Sequences, FiniteSets, TLC

(* ---------------------------- bounds ----------------------------------- *)
\* rows of the games table the model lets start_game create; a game is started
\* once no request can change the games that exist
MaxGames == 1
\* moves of one game that take the second empty cell of the board (in
\* row-major order) instead of the first
MaxSkips == 2
\* rows of the moves table, over all games
MaxTotalMoves == 9
\* moves of a sequence handed to reconstruct_board
MaxLogLen == 3
\* finished games in the database get_game_history reads
MaxFinished == 3

(* ---------------------------- values ----------------------------------- *)
\* Python None in an integer column or field (ids start at 1)
Null == 0
\* Python None in a board cell or a symbol
None == "none"

\* users.id of the registered users
UserIds == {1, 2, 3}

\* a username as typed: the registered name of user `id` (id outside UserIds:
\* a name nobody registered), typed in lower case or with upper-case letters
Names == [id : UserIds \cup {4}, upper : BOOLEAN]
\* the requests of the model: user 1 starts the games, naming nobody, itself,
\* user 2 or a name nobody registered; every user submits moves
Creators == {1}
OpponentInputs == {n \in Names : n.id \in {1, 2, 4}}
\* opponent_username = None (no username supplied)
NoName == [id |-> Null, upper |-> FALSE]
\* StartGameRequest.game_mode
Modes == {"vs_player", "vs_computer"}
\* str.lower()
Lower(name) == [name EXCEPT !.upper = FALSE]
\* users.username of a registered user (register_user stores it lower-cased)
Username(id) == [id |-> id, upper |-> FALSE]
\* db.query(User).filter(User.username == name).first(): the id, or Null
UserByName(name) ==
    IF \E id \in UserIds : Username(id) = name
    THEN CHOOSE id \in UserIds : Username(id) = name
    ELSE Null

Idx == 0..2
Symbols == {"X", "O"}

VARIABLES
    games,      \* the games table: a sequence of rows, games[i].id = i
    moves,      \* the moves table: a sequence of rows in insertion order
    history,    \* the match_history table: a sequence of rows in insertion order
    clock,      \* logical time: the number of committed transactions
    resp,       \* the response to the latest request served alone
    inflight,   \* the make_move requests being served concurrently, by slot
    arg,        \* the argument of a call of a board function
    ret         \* the result of that call

vars == <<games, moves, history, clock, resp, inflight, arg, ret>>

\* the database
DB == [games |-> games, moves |-> moves, history |-> history, clock |-> clock]

(* ---------------------------- board ------------------------------------ *)
empty_board == [r \in Idx |-> [c \in Idx |-> None]]

\* indexing of a list of length 3: a negative index counts from the end
PyIndex(i) == IF i < 0 THEN i + 3 ELSE i

RECURSIVE reconstruct_board(_)
reconstruct_board(ms) ==
    IF ms = <<>> THEN empty_board
    ELSE LET m == ms[Len(ms)]
             b == reconstruct_board(SubSeq(ms, 1, Len(ms) - 1))
         IN  [b EXCEPT ![PyIndex(m.row)][PyIndex(m.col)] = m.symbol]

\* mutant: the lines are collected from the bottom row and the right column
Lines_Backwards(board) ==
    << board[2], [i \in Idx |-> board[i][2]],
       board[1], [i \in Idx |-> board[i][1]],
       board[0], [i \in Idx |-> board[i][0]],
       [i \in Idx |-> board[i][i]],
       [i \in Idx |-> board[i][2 - i]] >>

\* the lines in the order check_winner collects them
Lines(board) ==
    << board[0], [i \in Idx |-> board[i][0]],
       board[1], [i \in Idx |-> board[i][1]],
       board[2], [i \in Idx |-> board[i][2]],
       [i \in Idx |-> board[i][i]],
       [i \in Idx |-> board[i][2 - i]] >>

LineWins(line) == line[0] # None /\ \A i \in Idx : line[i] = line[0]

\* mutant: no board counts as full
BoardFull_Never(board) == FALSE

BoardFull(board) == \A r \in Idx, c \in Idx : board[r][c] # None

\* mutant: the full board is tested before the lines
check_winner_DrawFirst(board) ==
    LET lines == Lines(board)
        hits  == {i \in 1..Len(lines) : LineWins(lines[i])}
    IN  IF BoardFull(board) THEN "draw"
        ELSE IF hits # {}
        THEN lines[CHOOSE i \in hits : \A j \in hits : i <= j][0]
        ELSE None

check_winner(board) ==
    LET lines == Lines(board)
        hits  == {i \in 1..Len(lines) : LineWins(lines[i])}
    IN  IF hits # {}
        THEN lines[CHOOSE i \in hits : \A j \in hits : i <= j][0]
        ELSE IF BoardFull(board) THEN "draw" ELSE None

(* ---------------------------- queries ---------------------------------- *)
\* insertion of a row into a sequence sorted by move_number (stable)
RECURSIVE OrderByMoveNumber(_)
OrderByMoveNumber(rows) ==
    IF rows = <<>> THEN <<>>
    ELSE LET m      == rows[Len(rows)]
             sorted == OrderByMoveNumber(SubSeq(rows, 1, Len(rows) - 1))
             before == SelectSeq(sorted, LAMBDA x : x.move_number <= m.move_number)
             after  == SelectSeq(sorted, LAMBDA x : x.move_number > m.move_number)
         IN  before \o <<m>> \o after

\* db.query(Move).filter(Move.game_id == game_id).order_by(Move.move_number).all()
MovesOf(tbl, g) == OrderByMoveNumber(SelectSeq(tbl, LAMBDA m : m.game_id = g))

\* the result of a query that finds no game
NoGame == [id |-> Null, player_x_id |-> Null, player_o_id |-> Null,
           status |-> None, current_turn |-> None, start_time |-> Null,
           end_time |-> Null, winner_id |-> Null, game_mode |-> None]

\* db.query(Game).filter(Game.id == game_id).first()
GameById(tbl, g) == IF g \in DOMAIN tbl THEN tbl[g] ELSE NoGame

HistoryOf(tbl, g) == SelectSeq(tbl, LAMBDA h : h.game_id = g)

(* ---------------------------- responses -------------------------------- *)
Response(op, kind, g, board, status, winner, is_draw) ==
    [op |-> op, kind |-> kind, game |-> g, board |-> board, status |-> status,
     winner |-> winner, is_draw |-> is_draw]

\* an HTTPException raised by a handler
Rejected(op, kind, g) == Response(op, kind, g, empty_board, None, NoName, FALSE)

NoResponse == Rejected(None, None, Null)

(* ---------------------------- make_move: checks ------------------------ *)
\* mutant: a won game still takes moves
IsActive_WinsStayOpen(status) == status \in {"in_progress", "x_won", "o_won"}

\* game.status not in ("in_progress",) is the rejection
IsActive(status) == status = "in_progress"

\* mutant: in a game against the computer the requester plays the symbol
\* whose turn it is
ResolveSymbol_BothSymbols(game, u) ==
    IF game.player_o_id = Null /\ game.game_mode = "vs_computer"
    THEN game.current_turn
    ELSE IF game.player_x_id = u THEN "X"
    ELSE IF game.player_o_id = u THEN "O"
    ELSE None

\* mutant: in a game against the computer a user who is not its creator
\* plays O
ResolveSymbol_OthersPlayO(game, u) ==
    IF game.player_x_id = u THEN "X"
    ELSE IF game.player_o_id = u THEN "O"
    ELSE IF game.player_o_id = Null /\ game.game_mode = "vs_computer" THEN "O"
    ELSE None

\* the symbol of the requester, or None
ResolveSymbol(game, u) ==
    IF game.player_x_id = u THEN "X"
    ELSE IF game.player_o_id = u THEN "O"
    ELSE IF game.player_o_id = Null /\ game.game_mode = "vs_computer" THEN "X"
    ELSE None

\* mutant: the turn is not checked
TurnOk_Skipped(game, symbol) == TRUE

TurnOk(game, symbol) == game.current_turn = symbol

\* the checks of make_move on the loaded game, in the order of the code
PreCheck(game, u) ==
    IF game.id = Null THEN "GameNotFound"
    ELSE IF ~IsActive(game.status) THEN "GameNotActive"
    ELSE IF ResolveSymbol(game, u) = None THEN "PlayerNotInGame"
    ELSE IF ~TurnOk(game, ResolveSymbol(game, u)) THEN "NotYourTurn"
    ELSE "ok"

\* no request of any user can change the game any more
Settled(game) == \A u \in UserIds : PreCheck(game, u) # "ok"

(* ---------------------------- start_game ------------------------------- *)
\* mutant: a supplied username makes a two-player game whatever the mode
WantsOpponent_AnyMode(opp, mode) == opp # NoName

\* the branch of start_game: an opponent is looked up iff a username was
\* supplied and the mode is vs_player
WantsOpponent(opp, mode) == opp # NoName /\ mode = "vs_player"

\* mutant: the creator may name itself
ValidOpponent_SelfAllowed(opponent, u) == opponent # Null

\* not (not opponent or opponent.id == current_user.id)
ValidOpponent(opponent, u) == opponent # Null /\ opponent # u

\* start_game on database db: the database after it and the response
Started(db, u, opp, mode) ==
    LET opponent == IF opp = NoName THEN Null ELSE UserByName(Lower(opp))
    IN  IF WantsOpponent(opp, mode) /\ ~ValidOpponent(opponent, u)
        THEN [db |-> db, resp |-> Rejected("start", "InvalidOpponent", Null)]
        ELSE LET player_o_id == IF WantsOpponent(opp, mode) THEN opponent ELSE Null
                 game_mode   == IF WantsOpponent(opp, mode) THEN "vs_player"
                                                            ELSE "vs_computer"
                 new_game    == [id |-> Len(db.games) + 1,
                                 player_x_id |-> u,
                                 player_o_id |-> player_o_id,
                                 status |-> "in_progress",
                                 current_turn |-> "X",
                                 start_time |-> db.clock + 1,
                                 end_time |-> Null,
                                 winner_id |-> Null,
                                 game_mode |-> game_mode]
             IN  [db |-> [db EXCEPT !.games = Append(@, new_game),
                                    !.clock = @ + 1],
                  resp |-> Response("start", "ok", new_game.id, empty_board,
                                    new_game.status, NoName, FALSE)]

\* the database and the response of a request served alone become the state
Install(out) ==
    /\ games' = out.db.games
    /\ moves' = out.db.moves
    /\ history' = out.db.history
    /\ clock' = out.db.clock
    /\ resp' = out.resp
    /\ UNCHANGED <<inflight, arg, ret>>

StartGame(u, opp, mode) ==
    /\ Len(games) < MaxGames
    /\ \A g \in DOMAIN games : Settled(games[g])
    /\ Install(Started(DB, u, opp, mode))

(* ---------------------------- make_move -------------------------------- *)
\* mutant: only the upper limit of row and col is validated
InRange_NoLowerLimit(r, c) == r <= 2 /\ c <= 2

\* MoveRequest: row and col are validated (ge=0, le=2) before make_move runs
InRange(r, c) == r \in Idx /\ c \in Idx

\* mutant: the target cell is not checked
CellFree_Skipped(board, r, c) == TRUE

CellFree(board, r, c) == board[PyIndex(r)][PyIndex(c)] = None

\* mutant: move numbers start at 0
NextMoveNum_FromZero(ms) == Len(ms)

NextMoveNum(ms) == Len(ms) + 1

\* mutant: a win is recorded for the other symbol
StatusOf_Swapped(winner_symbol) ==
    IF winner_symbol = "draw" THEN "draw"
    ELSE IF winner_symbol = "X" THEN "o_won"
    ELSE IF winner_symbol = "O" THEN "x_won"
    ELSE "in_progress"

StatusOf(winner_symbol) ==
    IF winner_symbol = "draw" THEN "draw"
    ELSE IF winner_symbol = "X" THEN "x_won"
    ELSE IF winner_symbol = "O" THEN "o_won"
    ELSE "in_progress"

\* mutant: the winner is the other player
WinnerIdOf_Swapped(game, winner_symbol) ==
    IF winner_symbol = "X" THEN game.player_o_id
    ELSE IF winner_symbol = "O" THEN game.player_x_id
    ELSE Null

WinnerIdOf(game, winner_symbol) ==
    IF winner_symbol = "X" THEN game.player_x_id
    ELSE IF winner_symbol = "O" THEN game.player_o_id
    ELSE Null

\* mutant: a draw is not finalized
Finalizes_WinsOnly(status) == status \in {"x_won", "o_won"}

\* the statuses on which make_move finalizes the game and inserts history
Finalizes(status) == status \in {"x_won", "o_won", "draw"}

\* mutant: the turn never passes to the other symbol
FlipTurn_Stuck(turn) == turn

FlipTurn(turn) == IF turn = "X" THEN "O" ELSE "X"

\* mutant: the turn is switched after a finishing move too
TurnAfter_AlwaysFlip(turn, status) == IF turn = "X" THEN "O" ELSE "X"

\* game.current_turn after the move
TurnAfter(turn, status) == IF status = "in_progress" THEN FlipTurn(turn) ELSE turn

\* mutant: the symbol is not put on the board
Place_Nothing(board, r, c, symbol) == board

\* board[move.row][move.col] = symbol
Place(board, r, c, symbol) ==
    [board EXCEPT ![PyIndex(r)][PyIndex(c)] = symbol]

\* the locals of make_move once the cell is known to be free: `game` is the
\* loaded row, `ms` the loaded moves
Plan(game, ms, u, r, c, now) ==
    LET symbol        == ResolveSymbol(game, u)
        move_obj      == [game_id |-> game.id, move_number |-> NextMoveNum(ms),
                          player_id |-> u, row |-> r, col |-> c, symbol |-> symbol]
        board         == Place(reconstruct_board(ms), r, c, symbol)
        winner_symbol == check_winner(board)
        status        == StatusOf(winner_symbol)
        winner_id     == WinnerIdOf(game, winner_symbol)
        game1         == [game EXCEPT
                            !.status = status,
                            !.winner_id = IF winner_id # Null THEN winner_id ELSE @,
                            !.end_time = IF Finalizes(status) THEN now ELSE @,
                            !.current_turn = TurnAfter(@, status)]
        match_history == [game_id |-> game.id,
                          player_x_id |-> game.player_x_id,
                          player_o_id |-> game.player_o_id,
                          winner_id |-> game1.winner_id,
                          result |-> status,
                          finished_at |-> now]
    IN  [move |-> move_obj, board |-> board, status |-> status, game |-> game1,
         rows |-> IF Finalizes(status) THEN <<match_history>> ELSE <<>>,
         winner |-> IF (IF Finalizes(status) THEN game1.winner_id ELSE winner_id) = u
                    THEN Username(u) ELSE NoName,
         is_draw |-> (winner_symbol = "draw")]

\* uq_game_id_move_number
UniqueOk(tbl, m) ==
    \A i \in DOMAIN tbl :
        ~(tbl[i].game_id = m.game_id /\ tbl[i].move_number = m.move_number)

\* the UPDATE of a flush: the attributes of obj that differ from the loaded row
Merge(row, loaded, obj) ==
    [f \in DOMAIN row |-> IF obj[f] # loaded[f] THEN obj[f] ELSE row[f]]

\* mutant: a commit that fails on the unique constraint keeps the update of
\* the game row
Committed_KeepsGameOnFailure(db, game, ms, u, r, c) ==
    LET p == Plan(game, ms, u, r, c, db.clock + 1)
    IN  IF ~UniqueOk(db.moves, p.move)
        THEN [db |-> [db EXCEPT !.games[game.id] = Merge(@, game, p.game)],
              resp |-> Rejected("move", "IntegrityError", game.id)]
        ELSE [db |-> [games |-> [db.games EXCEPT
                                    ![game.id] = Merge(@, game, p.game)],
                      moves |-> Append(db.moves, p.move),
                      history |-> db.history \o p.rows,
                      clock |-> db.clock + 1],
              resp |-> Response("move", "ok", game.id, p.board, p.status,
                                p.winner, p.is_draw)]

\* db.commit() of make_move on database db: `game` and `ms` are what the
\* request loaded; the flush inserts the move, updates the game and inserts
\* the history row, or fails on the unique constraint and persists nothing
Committed(db, game, ms, u, r, c) ==
    LET p == Plan(game, ms, u, r, c, db.clock + 1)
    IN  IF ~UniqueOk(db.moves, p.move)
        THEN [db |-> db, resp |-> Rejected("move", "IntegrityError", game.id)]
        ELSE [db |-> [games |-> [db.games EXCEPT
                                    ![game.id] = Merge(@, game, p.game)],
                      moves |-> Append(db.moves, p.move),
                      history |-> db.history \o p.rows,
                      clock |-> db.clock + 1],
              resp |-> Response("move", "ok", game.id, p.board, p.status,
                                p.winner, p.is_draw)]

\* make_move on database db, served alone
Served(db, u, g, r, c) ==
    LET game == GameById(db.games, g)
        pre  == PreCheck(game, u)
        ms   == MovesOf(db.moves, g)
    IN  IF ~InRange(r, c)
        THEN [db |-> db, resp |-> Rejected("move", "OutOfBounds", g)]
        ELSE IF pre # "ok"
        THEN [db |-> db, resp |-> Rejected("move", pre, g)]
        ELSE IF ~CellFree(reconstruct_board(ms), r, c)
        THEN [db |-> db, resp |-> Rejected("move", "CellOccupied", g)]
        ELSE Committed(db, game, ms, u, r, c)

\* the cells in row-major order
CellSeq == [i \in 1..9 |-> <<(i - 1) \div 3, (i - 1) % 3>>]

\* the empty cells of a board, in row-major order
FreeCells(board) == SelectSeq(CellSeq, LAMBDA p : board[p[1]][p[2]] = None)

\* the moves of a game that did not take the first empty cell
Skips(ms) ==
    {i \in DOMAIN ms :
        <<ms[i].row, ms[i].col>>
            # FreeCells(reconstruct_board(SubSeq(ms, 1, i - 1)))[1]}

\* the cells the model's requests target in a game with moves ms: the first
\* and the last occupied cell, the first empty cell and, while fewer than
\* MaxSkips moves of the game skipped the first empty cell, the second one
Targets(ms) ==
    LET board == reconstruct_board(ms)
        free  == FreeCells(board)
        used  == SelectSeq(CellSeq, LAMBDA p : board[p[1]][p[2]] # None)
        picks == IF Cardinality(Skips(ms)) < MaxSkips THEN {1, 2} ELSE {1}
    IN  {used[i] : i \in {j \in DOMAIN used : j = 1 \/ j = Len(used)}}
        \cup {free[i] : i \in DOMAIN free \cap picks}

\* one make_move request served alone
MakeMove(u, g, r, c) ==
    LET out == Served(DB, u, g, r, c)
    IN  /\ Len(out.db.moves) <= MaxTotalMoves
        /\ Install(out)

(* ---------------------------- specification ---------------------------- *)
Slots == {"a", "b"}

\* no board function is being called
NoArg == [fn |-> None, board |-> empty_board, moves |-> <<>>]
NoRet == [done |-> FALSE, raised |-> None, value |-> None]
\* the call returned value v: neither function raises
Returned(v) == [done |-> TRUE, raised |-> None, value |-> v]

\* a slot that serves no request
Idle == [pc |-> "idle", isolation |-> None, user |-> Null, game_id |-> Null,
         row |-> 0, col |-> 0, game |-> NoGame, snapshot |-> <<>>,
         ms |-> <<>>, resp |-> NoResponse]

Init ==
    /\ games = <<>>
    /\ moves = <<>>
    /\ history = <<>>
    /\ clock = 0
    /\ resp = NoResponse
    /\ inflight = [s \in Slots |-> Idle]
    /\ arg = NoArg
    /\ ret = NoRet

GameIdInputs == 1..(MaxGames + 1)

Next ==
    \/ \E u \in Creators, opp \in OpponentInputs \cup {NoName},
          mode \in Modes : StartGame(u, opp, mode)
    \/ \E g \in GameIdInputs : \E p \in Targets(MovesOf(moves, g)) :
          \E u \in UserIds : MakeMove(u, g, p[1], p[2])

Spec == Init /\ [][Next]_vars

(* ---------------------------- all requests ----------------------------- *)
\* get_game_state on database db: the response
State(db, u, g) ==
    LET game == GameById(db.games, g)
        ms   == MovesOf(db.moves, g)
    IN  IF game.id = Null THEN Rejected("state", "GameNotFound", g)
        ELSE IF game.player_x_id # u
                /\ (game.player_o_id # u /\ game.player_o_id # Null)
        THEN Rejected("state", "NotAuthorized", g)
        ELSE Response("state", "ok", g, reconstruct_board(ms), game.status,
                      IF game.winner_id # Null THEN Username(game.winner_id)
                                               ELSE NoName,
                      game.status = "draw")
             @@ [current_turn |-> game.current_turn,
                 moves |-> [i \in DOMAIN ms |->
                              [move_number |-> ms[i].move_number,
                               player |-> Username(ms[i].player_id),
                               row |-> ms[i].row, col |-> ms[i].col,
                               symbol |-> ms[i].symbol]],
                 player_x |-> Username(game.player_x_id),
                 player_o |-> IF game.player_o_id # Null
                              THEN Username(game.player_o_id) ELSE NoName]

\* one get_game_state request
GetGameState(u, g) ==
    /\ resp' = State(DB, u, g)
    /\ UNCHANGED <<games, moves, history, clock, inflight, arg, ret>>

\* rows and cols outside 0..2 that requests carry
OutOfRange == {<<-1, 0>>, <<0, 3>>}

\* the requests of Next, make_move requests with a row or col outside 0..2
\* and get_game_state requests
NextAll ==
    \/ Next
    \/ \E g \in GameIdInputs, p \in OutOfRange, u \in UserIds :
          MakeMove(u, g, p[1], p[2])
    \/ \E g \in GameIdInputs, u \in UserIds : GetGameState(u, g)

SpecAll == Init /\ [][NextAll]_vars

(* ---------------------------- concurrent requests --------------------- *)
\* The transaction isolation level is the database server's: the engine of
\* db.py sets none.  Under repeatable_read the queries of one request read the
\* snapshot of its first query; under read_committed each query reads what is
\* committed when it runs.
Isolations == {"repeatable_read", "read_committed"}

\* a make_move request arrives in a free slot
Begin(s, iso, u, g, r, c) ==
    /\ inflight[s].pc = "idle"
    /\ \A t \in Slots : inflight[t].pc # "idle" => inflight[t].isolation = iso
    /\ inflight' = [inflight EXCEPT ![s] =
                      [Idle EXCEPT !.pc = "load_game", !.isolation = iso,
                                   !.user = u, !.game_id = g,
                                   !.row = r, !.col = c]]
    /\ UNCHANGED <<games, moves, history, clock, resp, arg, ret>>

\* the query of the game and the checks on it
LoadGame(s) ==
    LET req  == inflight[s]
        game == GameById(games, req.game_id)
        pre  == PreCheck(game, req.user)
    IN  /\ req.pc = "load_game"
        /\ inflight' = [inflight EXCEPT ![s] =
              IF pre # "ok"
              THEN [req EXCEPT !.pc = "done",
                               !.resp = Rejected("move", pre, req.game_id)]
              ELSE [req EXCEPT !.pc = "load_moves", !.game = game,
                               !.snapshot = moves]]
        /\ UNCHANGED <<games, moves, history, clock, resp, arg, ret>>

\* the query of the moves and the check of the target cell
LoadMoves(s) ==
    LET req == inflight[s]
        tbl == IF req.isolation = "repeatable_read" THEN req.snapshot ELSE moves
        ms  == MovesOf(tbl, req.game_id)
    IN  /\ req.pc = "load_moves"
        /\ inflight' = [inflight EXCEPT ![s] =
              IF ~CellFree(reconstruct_board(ms), req.row, req.col)
              THEN [req EXCEPT !.pc = "done",
                               !.resp = Rejected("move", "CellOccupied", req.game_id)]
              ELSE [req EXCEPT !.pc = "commit", !.ms = ms]]
        /\ UNCHANGED <<games, moves, history, clock, resp, arg, ret>>

\* db.commit() and the response
CommitMove(s) ==
    LET req == inflight[s]
        out == Committed(DB, req.game, req.ms, req.user, req.row, req.col)
    IN  /\ req.pc = "commit"
        /\ games' = out.db.games
        /\ moves' = out.db.moves
        /\ history' = out.db.history
        /\ clock' = out.db.clock
        /\ inflight' = [inflight EXCEPT ![s] =
                          [req EXCEPT !.pc = "done", !.resp = out.resp]]
        /\ UNCHANGED <<resp, arg, ret>>

\* the requests that set up the game the concurrent requests meet: user 1
\* starts a game against user 2 and the two play (0,0), (1,0), (0,1), (1,1)
Script == << [user |-> 1, row |-> 0, col |-> 0],
             [user |-> 2, row |-> 1, col |-> 0],
             [user |-> 1, row |-> 0, col |-> 1],
             [user |-> 2, row |-> 1, col |-> 1] >>

\* the database after start_game and the first k requests of the script
RECURSIVE Replayed(_)
Replayed(k) ==
    IF k = 0
    THEN Started([games |-> <<>>, moves |-> <<>>, history |-> <<>>, clock |-> 0],
                 1, Username(2), "vs_player").db
    ELSE Served(Replayed(k - 1), Script[k].user, 1, Script[k].row, Script[k].col).db

InitConc ==
    /\ \E k \in 0..Len(Script) :
          /\ games = Replayed(k).games
          /\ moves = Replayed(k).moves
          /\ history = Replayed(k).history
          /\ clock = Replayed(k).clock
    /\ resp = NoResponse
    /\ inflight = [s \in Slots |-> Idle]
    /\ arg = NoArg
    /\ ret = NoRet

NextConc ==
    \/ \E s \in Slots, iso \in Isolations, u \in UserIds,
          g \in 1..(Len(games) + 1), r \in Idx, c \in Idx :
             Begin(s, iso, u, g, r, c)
    \/ \E s \in Slots : LoadGame(s)
    \/ \E s \in Slots : LoadMoves(s)
    \/ \E s \in Slots : CommitMove(s)

SpecConc == InitConc /\ [][NextConc]_vars

(* ---------------------------- players who keep playing ----------------- *)
\* the game of the script after its first three or four moves, and no
\* request served yet
InitPlay ==
    /\ \E k \in (Len(Script) - 1)..Len(Script) :
          /\ games = Replayed(k).games
          /\ moves = Replayed(k).moves
          /\ history = Replayed(k).history
          /\ clock = Replayed(k).clock
    /\ resp = NoResponse
    /\ inflight = [s \in Slots |-> Idle]
    /\ arg = NoArg
    /\ ret = NoRet

\* one make_move request on the game, by any user on any cell
NextPlay == \E u \in UserIds, r \in Idx, c \in Idx : MakeMove(u, 1, r, c)

\* a make_move request on the game that is accepted
AcceptedMove == NextPlay /\ moves' # moves

\* some request on the game would be accepted: ENABLED <<AcceptedMove>>_vars,
\* computed from what make_move returns
CanMove ==
    \E u \in UserIds, r \in Idx, c \in Idx :
        LET out == Served(DB, u, 1, r, c)
        IN  /\ Len(out.db.moves) <= MaxTotalMoves
            /\ out.db.moves # moves

\* weak fairness of AcceptedMove, WF_vars(AcceptedMove), written with CanMove
\* for ENABLED <<AcceptedMove>>_vars
KeepsPlaying == []<>(~CanMove) \/ []<><<AcceptedMove>>_vars

\* the requests on the game, where the player to move keeps sending a move on
\* an empty cell until one is accepted
SpecPlay == InitPlay /\ [][NextPlay]_vars /\ KeepsPlaying

(* ---------------------------- match history ---------------------------- *)
\* mutant: the rows are ordered by finished_at ascending
OrderByFinishedAtDesc_Ascending(rows) ==
    LET n       == Len(rows)
        rank(i) == Cardinality({j \in 1..n :
                      \/ rows[j].finished_at < rows[i].finished_at
                      \/ rows[j].finished_at = rows[i].finished_at /\ j < i})
    IN  [k \in 1..n |-> rows[CHOOSE i \in 1..n : rank(i) = k - 1]]

\* order_by(MatchHistory.finished_at.desc()); rows with one finished_at keep
\* their order
OrderByFinishedAtDesc(rows) ==
    LET n       == Len(rows)
        rank(i) == Cardinality({j \in 1..n :
                      \/ rows[j].finished_at > rows[i].finished_at
                      \/ rows[j].finished_at = rows[i].finished_at /\ j < i})
    IN  [k \in 1..n |-> rows[CHOOSE i \in 1..n : rank(i) = k - 1]]

\* the query of get_game_history
MatchQuery(tbl, u) ==
    OrderByFinishedAtDesc(
        SelectSeq(tbl, LAMBDA h : h.player_x_id = u \/ h.player_o_id = u))

\* the username of a user id that may be None
UsernameOrNone(id) == IF id # Null THEN Username(id) ELSE NoName

\* get_game_history on database db: the response
History(db, u) ==
    LET rows == MatchQuery(db.history, u)
    IN  Response("history", "ok", Null, empty_board, None, NoName, FALSE)
        @@ [games |-> [i \in DOMAIN rows |->
                         [game_id |-> rows[i].game_id,
                          player_x |-> Username(rows[i].player_x_id),
                          player_o |-> UsernameOrNone(rows[i].player_o_id),
                          result |-> rows[i].result,
                          winner |-> UsernameOrNone(rows[i].winner_id),
                          finished_at |-> rows[i].finished_at]]]

\* one call of get_game_history
GetGameHistory(u) ==
    /\ resp' = History(DB, u)
    /\ UNCHANGED <<games, moves, history, clock, inflight, arg, ret>>

\* the cells of the moves of a game won by X, won by O and drawn
Plays ==
    [x_won |-> << <<0, 0>>, <<1, 0>>, <<0, 1>>, <<1, 1>>, <<0, 2>> >>,
     o_won |-> << <<0, 0>>, <<1, 0>>, <<0, 1>>, <<1, 1>>, <<2, 2>>, <<1, 2>> >>,
     draw  |-> << <<0, 0>>, <<0, 1>>, <<0, 2>>, <<1, 1>>, <<1, 0>>, <<1, 2>>,
                  <<2, 1>>, <<2, 0>>, <<2, 2>> >>]

\* the games played before get_game_history is called: who starts (user 1
\* against user 2, or user 2 against user 3) and how the game ends
Matches == {m \in [x : {1, 2}, o : {2, 3}, play : DOMAIN Plays] : m.o = m.x + 1}

\* the database after the first k moves of a match played on database db as
\* game g
RECURSIVE Moved(_, _, _, _)
Moved(db, g, m, k) ==
    IF k = 0 THEN db
    ELSE Served(Moved(db, g, m, k - 1), IF k % 2 = 1 THEN m.x ELSE m.o, g,
                Plays[m.play][k][1], Plays[m.play][k][2]).db

\* the database after the matches ms, played one after the other
RECURSIVE Played(_)
Played(ms) ==
    IF ms = <<>>
    THEN [games |-> <<>>, moves |-> <<>>, history |-> <<>>, clock |-> 0]
    ELSE LET m  == ms[Len(ms)]
             db == Started(Played(SubSeq(ms, 1, Len(ms) - 1)), m.x,
                           Username(m.o), "vs_player").db
         IN  Moved(db, Len(db.games), m, Len(Plays[m.play]))

InitHistory ==
    /\ \E n \in 0..MaxFinished : \E ms \in [1..n -> Matches] :
          LET db == Played(ms)
          IN  /\ games = db.games
              /\ moves = db.moves
              /\ history = db.history
              /\ clock = db.clock
    /\ resp = NoResponse
    /\ inflight = [s \in Slots |-> Idle]
    /\ arg = NoArg
    /\ ret = NoRet

NextHistory == \E u \in UserIds : GetGameHistory(u)

SpecHistory == InitHistory /\ [][NextHistory]_vars

(* ---------------------------- routing ---------------------------------- *)
\* a path segment is the sequence of its characters
Digits == <<"0", "1", "2", "3", "4", "5", "6", "7", "8", "9">>

SegGame    == <<"g", "a", "m", "e">>
SegStart   == <<"s", "t", "a", "r", "t">>
SegMove    == <<"m", "o", "v", "e">>
SegHistory == <<"h", "i", "s", "t", "o", "r", "y">>

\* a literal segment and a path parameter of a route's path
Lit(seg) == [param |-> FALSE, text |-> seg]
Param == [param |-> TRUE, text |-> <<>>]

\* the routes of the game router under its prefix /game, in the order the
\* decorators register them
Routes ==
    << [method |-> "POST", path |-> <<Lit(SegGame), Lit(SegStart)>>,
        endpoint |-> "start_game"],
       [method |-> "POST", path |-> <<Lit(SegGame), Param, Lit(SegMove)>>,
        endpoint |-> "make_move"],
       [method |-> "GET", path |-> <<Lit(SegGame), Param>>,
        endpoint |-> "get_game_state"],
       [method |-> "GET", path |-> <<Lit(SegGame), Lit(SegHistory)>>,
        endpoint |-> "get_game_history"] >>

\* a route's path matches a request path: a literal segment equals the
\* segment, a path parameter takes any non-empty segment
PathMatches(pattern, path) ==
    /\ Len(pattern) = Len(path)
    /\ \A i \in DOMAIN pattern :
          IF pattern[i].param THEN path[i] # <<>>
                              ELSE pattern[i].text = path[i]

\* the endpoint of the first registered route whose path and method match
Dispatch(method, path) ==
    LET paths == {i \in DOMAIN Routes : PathMatches(Routes[i].path, path)}
        full  == {i \in paths : Routes[i].method = method}
    IN  IF full # {}
        THEN Routes[CHOOSE i \in full : \A j \in full : i <= j].endpoint
        ELSE IF paths # {} THEN "MethodNotAllowed" ELSE "NotFound"

\* the value of a decimal digit
DigitValue(ch) == (CHOOSE i \in DOMAIN Digits : Digits[i] = ch) - 1

IsDigit(ch) == \E i \in DOMAIN Digits : Digits[i] = ch

\* game_id: int of a path parameter: the segment read as a decimal number,
\* or a validation error
RECURSIVE Decimal(_)
Decimal(seg) ==
    IF seg = <<>> THEN 0
    ELSE 10 * Decimal(SubSeq(seg, 1, Len(seg) - 1)) + DigitValue(seg[Len(seg)])

ParseInt(seg) ==
    IF seg # <<>> /\ \A i \in DOMAIN seg : IsDigit(seg[i])
    THEN [ok |-> TRUE, value |-> Decimal(seg)]
    ELSE [ok |-> FALSE, value |-> Null]

\* what a GET request of user u for a path returns
Routed(db, u, path) ==
    LET endpoint == Dispatch("GET", path)
    IN  IF endpoint = "get_game_state"
        THEN LET game_id == ParseInt(path[2])
             IN  IF game_id.ok THEN State(db, u, game_id.value)
                 ELSE Rejected("state", "ValidationError", Null)
        ELSE IF endpoint = "get_game_history" THEN History(db, u)
        ELSE Rejected(None, endpoint, Null)

\* one GET request
HttpGet(u, path) ==
    /\ resp' = Routed(DB, u, path)
    /\ UNCHANGED <<games, moves, history, clock, inflight, arg, ret>>

\* the paths GET requests ask for: /game/1, /game/2, /game/10,
\* /game/history, /game/start, /game/1/move and /game
GetPaths ==
    { <<SegGame, <<"1">>>>, <<SegGame, <<"2">>>>, <<SegGame, <<"1", "0">>>>,
      <<SegGame, SegHistory>>, <<SegGame, SegStart>>,
      <<SegGame, <<"1">>, SegMove>>, <<SegGame>> }

NextRoute == \E u \in UserIds, path \in GetPaths : HttpGet(u, path)

\* GET requests on a database of finished games
SpecRoute == InitHistory /\ [][NextRoute]_vars

(* ---------------------------- board functions -------------------------- *)
\* every 3x3 board over None, X and O
Boards == [Idx -> [Idx -> Symbols \cup {None}]]

\* the rows of Move a query returns for one game: X moves first, the symbols
\* alternate, the move numbers count from 1; the cells are any cells
MoveLog(cells) ==
    [i \in DOMAIN cells |->
        [game_id |-> 1, move_number |-> i,
         player_id |-> IF i % 2 = 1 THEN 1 ELSE 2,
         row |-> cells[i][1], col |-> cells[i][2],
         symbol |-> IF i % 2 = 1 THEN "X" ELSE "O"]]

MoveLogs ==
    UNION {{MoveLog(cells) : cells \in [1..n -> Idx \X Idx]} : n \in 0..MaxLogLen}

InitBoard ==
    /\ games = <<>>
    /\ moves = <<>>
    /\ history = <<>>
    /\ clock = 0
    /\ resp = NoResponse
    /\ inflight = [s \in Slots |-> Idle]
    /\ \/ \E b \in Boards :
             arg = [fn |-> "check_winner", board |-> b, moves |-> <<>>]
       \/ \E ms \in MoveLogs :
             arg = [fn |-> "reconstruct_board", board |-> empty_board, moves |-> ms]
    /\ ret = NoRet

\* a call of check_winner
CheckWinner ==
    /\ arg.fn = "check_winner"
    /\ ~ret.done
    /\ ret' = Returned(check_winner(arg.board))
    /\ UNCHANGED <<games, moves, history, clock, resp, inflight, arg>>

\* a call of reconstruct_board
ReconstructBoard ==
    /\ arg.fn = "reconstruct_board"
    /\ ~ret.done
    /\ ret' = Returned(reconstruct_board(arg.moves))
    /\ UNCHANGED <<games, moves, history, clock, resp, inflight, arg>>

NextBoard == CheckWinner \/ ReconstructBoard

SpecBoard == InitBoard /\ [][NextBoard]_vars

(* ---------------------------- properties ------------------------------- *)
Terminal == {"x_won", "o_won", "draw", "abandoned"}

\* the symbol a user plays in a game as one of its two players, or None
ParticipantSymbol(game, u) ==
    IF u = game.player_x_id THEN "X"
    ELSE IF game.player_o_id # Null /\ u = game.player_o_id THEN "O"
    ELSE None

\* the number of cells of a board holding a symbol
Count(board, symbol) ==
    Cardinality({p \in Idx \X Idx : board[p[1]][p[2]] = symbol})

\* C1: once a game's status is terminal, every make_move on it is rejected
\* with GameNotActive (no step is a make_move on it with another response),
\* and its row, its moves and its history rows never change again.
C1_TerminalIsSink ==
    [][\A g \in DOMAIN games :
        games[g].status \in Terminal =>
            /\ games'[g] = games[g]
            /\ MovesOf(moves', g) = MovesOf(moves, g)
            /\ HistoryOf(history', g) = HistoryOf(history, g)
            /\ \/ resp' = Rejected("move", "GameNotActive", g)
               \/ \A u \in UserIds, r \in Idx, c \in Idx : ~MakeMove(u, g, r, c)]_vars

\* a finished game has just refused a move
C1_Witness ==
    \E g \in DOMAIN games :
        /\ games[g].status \in Terminal
        /\ resp = Rejected("move", "GameNotActive", g)

\* C2: a game has exactly one match_history row if its status is terminal and
\* none otherwise (so the row appears in the step that makes the status
\* terminal); the row's result, winner and players are the game's, and the
\* winner of a draw is unset.
C2_OneHistoryRowIffTerminal ==
    /\ \A i \in DOMAIN history : history[i].game_id \in DOMAIN games
    /\ \A g \in DOMAIN games :
          LET rows == HistoryOf(history, g)
          IN  IF games[g].status \in Terminal
              THEN /\ Len(rows) = 1
                   /\ rows[1].result = games[g].status
                   /\ rows[1].winner_id = games[g].winner_id
                   /\ rows[1].player_x_id = games[g].player_x_id
                   /\ rows[1].player_o_id = games[g].player_o_id
                   /\ games[g].status = "draw" => rows[1].winner_id = Null
              ELSE rows = <<>>

\* a move has just ended a game in a draw and its history row exists
C2_Witness ==
    \E g \in DOMAIN games :
        /\ games[g].status = "draw"
        /\ resp.kind = "ok" /\ resp.op = "move" /\ resp.game = g
        /\ Len(HistoryOf(history, g)) = 1

\* C3: two concurrent make_move requests on one game never both commit after
\* observing the same moves; a request that does not commit is rejected by one
\* of the checks of the handler (NotYourTurn, CellOccupied, GameNotActive, or
\* PlayerNotInGame for a user outside the game), never by a failed commit; and
\* no game gets two moves with one move number, two consecutive moves with one
\* symbol, or two history rows.
C3_MovesSerialized ==
    /\ \A s \in Slots, t \in Slots :
          ( /\ s # t
            /\ inflight[s].resp.kind = "ok"
            /\ inflight[t].resp.kind = "ok" )
          => inflight[s].ms # inflight[t].ms
    /\ \A s \in Slots :
          inflight[s].pc = "done" =>
              inflight[s].resp.kind \in {"ok", "NotYourTurn", "CellOccupied",
                                         "GameNotActive", "PlayerNotInGame"}
    /\ \A g \in DOMAIN games :
          LET ms == MovesOf(moves, g)
          IN  /\ \A i \in DOMAIN ms, j \in DOMAIN ms :
                    i # j => ms[i].move_number # ms[j].move_number
              /\ \A i \in 1..(Len(ms) - 1) : ms[i].symbol # ms[i + 1].symbol
              /\ Len(HistoryOf(history, g)) <= 1

\* C4: on an in_progress game, make_move by a player of the game whose symbol
\* is not current_turn is rejected with NotYourTurn, whatever the target
\* cell, and appends no move (no step is such a request with another result).
C4_NotYourTurn ==
    [][\A g \in DOMAIN games, u \in UserIds, r \in Idx, c \in Idx :
        ( /\ games[g].status = "in_progress"
          /\ ParticipantSymbol(games[g], u) \in Symbols
          /\ ParticipantSymbol(games[g], u) # games[g].current_turn
          /\ ~( /\ resp' = Rejected("move", "NotYourTurn", g)
                /\ moves' = moves ) )
        => ~MakeMove(u, g, r, c)]_vars

\* a player of a game in progress has just been told it is not their turn
C4_Witness ==
    \E g \in DOMAIN games :
        /\ games[g].status = "in_progress"
        /\ games[g].player_o_id # Null
        /\ Len(MovesOf(moves, g)) >= 1
        /\ resp = Rejected("move", "NotYourTurn", g)

\* C5: on an in_progress game, make_move by the player whose turn it is on a
\* cell filled by an earlier move of the game is rejected with CellOccupied;
\* no move is appended, so the cell keeps its symbol (no step is such a
\* request with another result).
C5_CellOccupied ==
    [][\A g \in DOMAIN games, u \in UserIds, r \in Idx, c \in Idx :
        ( /\ games[g].status = "in_progress"
          /\ ParticipantSymbol(games[g], u) = games[g].current_turn
          /\ \E i \in DOMAIN moves :
                moves[i].game_id = g /\ moves[i].row = r /\ moves[i].col = c
          /\ ~( /\ resp' = Rejected("move", "CellOccupied", g)
                /\ moves' = moves
                /\ reconstruct_board(MovesOf(moves', g))[r][c]
                      = reconstruct_board(MovesOf(moves, g))[r][c] ) )
        => ~MakeMove(u, g, r, c)]_vars

\* the player to move has just been refused an occupied cell
C5_Witness ==
    \E g \in DOMAIN games :
        /\ games[g].status = "in_progress"
        /\ Len(MovesOf(moves, g)) >= 2
        /\ resp = Rejected("move", "CellOccupied", g)

\* C6: every stored move was made by the playerX or the playerO of its game
\* (a requester who is neither is rejected with PlayerNotInGame).
C6_MovesByParticipants ==
    \A i \in DOMAIN moves :
        ParticipantSymbol(games[moves[i].game_id], moves[i].player_id) \in Symbols

\* C7: a game's winner is set iff its status is x_won or o_won; it is playerX
\* for x_won and playerO, which is set, for o_won; end_time is set iff the
\* status is terminal; a draw has no winner.
C7_WinnerAndEndTime ==
    \A g \in DOMAIN games :
        LET game == games[g]
        IN  /\ game.winner_id # Null <=> game.status \in {"x_won", "o_won"}
            /\ game.status = "x_won" => game.winner_id = game.player_x_id
            /\ game.status = "o_won" =>
                  game.player_o_id # Null /\ game.winner_id = game.player_o_id
            /\ game.end_time # Null <=> game.status \in Terminal
            /\ game.status = "draw" => game.winner_id = Null

\* a game has been won by O
C7_Witness ==
    \E g \in DOMAIN games :
        /\ games[g].status = "o_won"
        /\ games[g].winner_id = games[g].player_o_id
        /\ games[g].end_time # Null

\* the move a step appended to game g, as a one-element sequence (empty if
\* the step appended none)
Appended(g) ==
    IF Len(moves') = Len(moves) + 1 /\ moves'[Len(moves')].game_id = g
    THEN <<moves'[Len(moves')]>>
    ELSE <<>>

\* C8: an accepted make_move whose post-move outcome is none flips
\* current_turn and leaves the status in_progress; one whose outcome is a win
\* or a draw leaves current_turn at the symbol of the move just made.
C8_TurnAfterMove ==
    [][\A g \in DOMAIN games :
        Appended(g) # <<>> =>
            IF check_winner(reconstruct_board(MovesOf(moves', g))) = None
            THEN /\ games'[g].current_turn \in Symbols
                 /\ games'[g].current_turn # games[g].current_turn
                 /\ games'[g].status = "in_progress"
            ELSE /\ games'[g].current_turn = games[g].current_turn
                 /\ games'[g].current_turn = Appended(g)[1].symbol
                 /\ games'[g].status \in Terminal]_vars

\* a move has just won a game for O and the turn is still O's
C8_Witness ==
    \E g \in DOMAIN games :
        /\ games[g].status = "o_won"
        /\ games[g].current_turn = "O"
        /\ resp.kind = "ok" /\ resp.op = "move" /\ resp.game = g

\* C9: the board of every game holds as many X as O or one more X than O;
\* the first move of a game is X and consecutive moves alternate.
C9_XFirstAlternating ==
    \A g \in DOMAIN games :
        LET ms    == MovesOf(moves, g)
            board == reconstruct_board(ms)
        IN  /\ Count(board, "X") - Count(board, "O") \in {0, 1}
            /\ ms # <<>> => ms[1].symbol = "X"
            /\ \A i \in 1..(Len(ms) - 1) : ms[i].symbol # ms[i + 1].symbol

\* a game holds four moves: two X and two O
C9_Witness ==
    \E g \in DOMAIN games :
        LET board == reconstruct_board(MovesOf(moves, g))
        IN  /\ Len(MovesOf(moves, g)) = 4
            /\ Count(board, "X") = 2 /\ Count(board, "O") = 2

\* C10: the moves of a game carry the move numbers 1..n, each once, and no
\* two of them target the same cell.
C10_MoveNumbersGapless ==
    \A g \in DOMAIN games :
        LET ms == MovesOf(moves, g)
        IN  /\ \A i \in DOMAIN ms : ms[i].move_number = i
            /\ \A i \in DOMAIN ms, j \in DOMAIN ms :
                  i # j => <<ms[i].row, ms[i].col>> # <<ms[j].row, ms[j].col>>

\* a game holds nine moves, numbered up to 9
C10_Witness ==
    \E g \in DOMAIN games :
        LET ms == MovesOf(moves, g)
        IN  Len(ms) = 9 /\ ms[9].move_number = 9

\* a step in which the request of slot s ends without a committed move
Failed(s) ==
    /\ inflight[s].pc # "done"
    /\ inflight'[s].pc = "done"
    /\ inflight'[s].resp.kind # "ok"

\* C11: a make_move that fails (GameNotFound, GameNotActive, PlayerNotInGame,
\* NotYourTurn, CellOccupied or a failed commit) leaves the games, moves and
\* match_history tables as they were; a step that stores a move stores, with
\* it, the turn or status update of its game and, if the status is terminal,
\* the history row; no step updates a game or adds a history row without
\* storing a move; and a game with a terminal status has a history row.
C11_NoPartialState ==
    /\ [](\A g \in DOMAIN games :
            games[g].status \in Terminal => HistoryOf(history, g) # <<>>)
    /\ [][ /\ \A s \in Slots :
                Failed(s) =>
                    games' = games /\ moves' = moves /\ history' = history
           /\ moves' # moves =>
                \E g \in DOMAIN games :
                    /\ Appended(g) # <<>>
                    /\ moves' = Append(moves, Appended(g)[1])
                    /\ IF games'[g].status \in Terminal
                       THEN /\ Len(history') = Len(history) + 1
                            /\ history'[Len(history')].game_id = g
                            /\ history'[Len(history')].result = games'[g].status
                            /\ games'[g].end_time # Null
                       ELSE /\ history' = history
                            /\ games'[g].current_turn
                                  = FlipTurn(Appended(g)[1].symbol)
           /\ (games' # games \/ history' # history) => moves' # moves ]_vars

\* a request has failed at its commit, after another request stored a move
C11_Witness ==
    \E s \in Slots :
        /\ inflight[s].pc = "done"
        /\ inflight[s].resp.kind = "IntegrityError"
        /\ Len(moves) = Len(inflight[s].ms) + 1

RepeatsCell(ms) ==
    \E i \in DOMAIN ms, j \in DOMAIN ms :
        i < j /\ ms[i].row = ms[j].row /\ ms[i].col = ms[j].col

\* C14: reconstruct_board, given a move sequence in which a move targets a
\* cell an earlier move of the sequence filled, fails with
\* InvalidMoveSequence instead of returning a board.
C14_InvalidMoveSequence ==
    ( /\ arg.fn = "reconstruct_board"
      /\ ret.done
      /\ RepeatsCell(arg.moves) )
    => ret.raised = "InvalidMoveSequence"

\* the eight lines of the board, each as its three cells
WinLines ==
    {{<<r, c>> : c \in Idx} : r \in Idx}
    \cup {{<<r, c>> : r \in Idx} : c \in Idx}
    \cup {{<<i, i>> : i \in Idx}, {<<i, 2 - i>> : i \in Idx}}

\* some line of the board holds three of the symbol
HasLine(board, symbol) ==
    \E line \in WinLines : \A p \in line : board[p[1]][p[2]] = symbol

\* C15: for every 3x3 board check_winner returns one outcome: a symbol only
\* if a line holds three of that symbol, draw iff no line is complete and
\* all nine cells are filled, None iff no line is complete and a cell is
\* empty; a full board with a complete line yields the symbol, not draw.
C15_Evaluate ==
    (arg.fn = "check_winner" /\ ret.done) =>
        LET board    == arg.board
            complete == HasLine(board, "X") \/ HasLine(board, "O")
        IN  /\ ret.value \in {"X", "O", "draw", None}
            /\ ret.value \in Symbols => HasLine(board, ret.value)
            /\ ret.value = "draw" <=> (~complete /\ BoardFull(board))
            /\ ret.value = None <=> (~complete /\ ~BoardFull(board))
            /\ complete => ret.value \in Symbols

\* check_winner has returned the symbol of a line of a full board
C15_Witness ==
    /\ arg.fn = "check_winner"
    /\ ret.done
    /\ BoardFull(arg.board)
    /\ HasLine(arg.board, "O")
    /\ ret.value = "O"

\* the lines in the order of the reference evaluator: the rows, the columns,
\* the diagonals
RefLines(board) ==
    << board[0], board[1], board[2],
       [i \in Idx |-> board[i][0]], [i \in Idx |-> board[i][1]],
       [i \in Idx |-> board[i][2]],
       [i \in Idx |-> board[i][i]], [i \in Idx |-> board[i][2 - i]] >>

\* the reference evaluator: the symbol of the first complete line, else draw
\* on a full board, else None
RefEvaluate(board) ==
    LET lines == RefLines(board)
        hits  == {i \in 1..Len(lines) :
                     lines[i][0] # None /\ \A k \in Idx : lines[i][k] = lines[i][0]}
    IN  IF hits # {}
        THEN lines[CHOOSE i \in hits : \A j \in hits : i <= j][0]
        ELSE IF \A r \in Idx, c \in Idx : board[r][c] # None THEN "draw" ELSE None

\* C20: on every one of the 3^9 boards check_winner, which scans row0, col0,
\* row1, col1, row2, col2, diagonal, anti-diagonal, returns what the
\* reference evaluator returns, which scans the rows, then the columns, then
\* the diagonals.
C20_ScanOrder ==
    (arg.fn = "check_winner" /\ ret.done) => ret.value = RefEvaluate(arg.board)

\* check_winner has evaluated a board with complete lines of both symbols
C20_Witness ==
    /\ arg.fn = "check_winner"
    /\ ret.done
    /\ HasLine(arg.board, "X") /\ HasLine(arg.board, "O")
    /\ ret.value = "X"
    /\ \A c \in Idx : arg.board[2][c] = "X"

\* C16: make_move with a row or col outside 0..2 (negative values included)
\* is rejected with OutOfBounds and appends no move, so that no cell of the
\* board, which is the replay of the moves, changes: whatever the database
\* holds, by whatever user, on whatever game id.
C16_OutOfBounds ==
    \A g \in GameIdInputs, u \in UserIds, r \in {-1, 0, 3}, c \in {-1, 0, 3} :
        (r \notin Idx \/ c \notin Idx) =>
            LET out == Served(DB, u, g, r, c)
            IN  /\ out.resp = Rejected("move", "OutOfBounds", g)
                /\ out.db.moves = moves
                /\ out.db.games = games
                /\ out.db.history = history

\* a move outside the board has just been refused on a game in progress
C16_Witness ==
    \E g \in DOMAIN games :
        /\ games[g].status = "in_progress"
        /\ Len(MovesOf(moves, g)) >= 1
        /\ resp = Rejected("move", "OutOfBounds", g)

\* C17: the board make_move returns is the board obtained by replaying the
\* stored moves of the game, the new one included, in move_number order; the
\* board get_game_state returns is the replay of the stored moves too, so a
\* get_game_state that follows an accepted make_move on the game returns the
\* board that make_move returned.
C17_BoardIsReplay ==
    [][ /\ (resp'.op = "move" /\ resp'.kind = "ok")
            => resp'.board = reconstruct_board(MovesOf(moves', resp'.game))
        /\ (resp'.op = "state" /\ resp'.kind = "ok")
            => /\ resp'.board = reconstruct_board(MovesOf(moves, resp'.game))
               /\ (resp.op = "move" /\ resp.kind = "ok"
                      /\ resp.game = resp'.game)
                    => resp'.board = resp.board ]_vars

\* get_game_state has just returned the board of a game with three moves
C17_Witness ==
    \E g \in DOMAIN games :
        /\ resp.op = "state" /\ resp.kind = "ok" /\ resp.game = g
        /\ Len(MovesOf(moves, g)) = 3
        /\ Count(resp.board, "X") = 2 /\ Count(resp.board, "O") = 1

\* C18: in a vs_computer game (in_progress, player O absent) the creator's
\* first move, made as X on turn X, is accepted, flips the turn to O and
\* leaves the status in_progress; the creator's next make_move, on any empty
\* cell, is rejected with NotYourTurn and stores nothing.
C18_ComputerGameStalls ==
    [][\A g \in DOMAIN games, r \in Idx, c \in Idx :
        LET game == games[g]
            ms   == MovesOf(moves, g)
        IN  ( /\ resp'.op = "move" /\ resp'.game = g
              /\ game.game_mode = "vs_computer"
              /\ game.player_o_id = Null
              /\ game.status = "in_progress"
              /\ reconstruct_board(ms)[r][c] = None
              /\ MakeMove(game.player_x_id, g, r, c) )
            => /\ (ms = <<>> /\ game.current_turn = "X") =>
                    /\ resp'.kind = "ok"
                    /\ resp'.status = "in_progress"
                    /\ Appended(g) # <<>>
                    /\ Appended(g)[1].symbol = "X"
                    /\ games'[g].current_turn = "O"
                    /\ games'[g].status = "in_progress"
               /\ Len(ms) = 1 =>
                    /\ resp' = Rejected("move", "NotYourTurn", g)
                    /\ moves' = moves
                    /\ games' = games
               /\ Len(ms) <= 1]_vars

\* a vs_computer game holds the creator's first move, the turn is O's and a
\* further move has just been refused
C18_Witness ==
    \E g \in DOMAIN games :
        LET ms == MovesOf(moves, g)
        IN  /\ games[g].game_mode = "vs_computer"
            /\ games[g].player_o_id = Null
            /\ Len(ms) = 1
            /\ ms[1].player_id = games[g].player_x_id
            /\ ms[1].symbol = "X"
            /\ games[g].current_turn = "O"
            /\ games[g].status = "in_progress"
            /\ resp = Rejected("move", "NotYourTurn", g)

\* C19: get_game_history of a user returns the match_history rows whose
\* player X or player O is that user, each once and no other row, ordered by
\* finished_at descending: a row with a later finished_at is listed before
\* one with an earlier finished_at.
C19_HistoryOfPlayer ==
    [][\A u \in UserIds :
        GetGameHistory(u) =>
            LET es   == resp'.games
                mine == {i \in DOMAIN history :
                            history[i].player_x_id = u \/ history[i].player_o_id = u}
            IN  /\ Len(es) = Cardinality(mine)
                /\ \A i \in mine :
                      \E k \in DOMAIN es :
                          /\ es[k].game_id = history[i].game_id
                          /\ es[k].result = history[i].result
                          /\ es[k].finished_at = history[i].finished_at
                          /\ es[k].player_x = Username(history[i].player_x_id)
                /\ \A k \in DOMAIN es :
                      \E i \in mine : es[k].game_id = history[i].game_id
                /\ \A j \in DOMAIN es, k \in DOMAIN es :
                      es[j].finished_at > es[k].finished_at => j < k]_vars

\* get_game_history has just returned two of the three rows, the later one
\* first
C19_Witness ==
    /\ resp.op = "history"
    /\ Len(history) = 3
    /\ Len(resp.games) = 2
    /\ resp.games[1].finished_at > resp.games[2].finished_at
    /\ resp.games[1].game_id > resp.games[2].game_id

\* C21: when an accepted make_move ends the game with a win, the winning
\* symbol is the symbol of the move just made: the status is x_won for a move
\* of X and o_won for a move of O, and the winner of the response is the
\* requester's username; the winner of the response is None when the status
\* is in_progress or draw.
C21_ResponseWinner ==
    [][\A g \in DOMAIN games :
        (resp'.op = "move" /\ resp'.kind = "ok" /\ resp'.game = g) =>
            /\ Appended(g) # <<>>
            /\ LET m     == Appended(g)[1]
                    board == reconstruct_board(MovesOf(moves', g))
               IN  /\ resp'.status = games'[g].status
                   /\ resp'.status \in {"x_won", "o_won"} =>
                        /\ check_winner(board) = m.symbol
                        /\ resp'.status = IF m.symbol = "X" THEN "x_won"
                                                            ELSE "o_won"
                        /\ resp'.winner = Username(m.player_id)
                        /\ games'[g].winner_id = m.player_id
                   /\ resp'.status \in {"in_progress", "draw"} =>
                        resp'.winner = NoName
                   /\ resp'.status \in {"x_won", "o_won", "in_progress", "draw"}
                   /\ resp'.is_draw <=> resp'.status = "draw"]_vars

\* user 1 has just won a game as X and is named as the winner
C21_Witness ==
    \E g \in DOMAIN games :
        /\ resp.op = "move" /\ resp.kind = "ok" /\ resp.game = g
        /\ resp.status = "x_won"
        /\ resp.winner = Username(1)
        /\ games[g].player_x_id = 1

\* C22: a vs_computer game never holds more than one move, its status is
\* in_progress in every state and it never has a history row, whatever
\* make_move requests whatever users send.
C22_ComputerGameNeverEnds ==
    \A g \in DOMAIN games :
        games[g].game_mode = "vs_computer" =>
            /\ Len(MovesOf(moves, g)) <= 1
            /\ games[g].status = "in_progress"
            /\ games[g].winner_id = Null
            /\ HistoryOf(history, g) = <<>>

\* a vs_computer game holds one move, made by a user other than its creator,
\* and has just refused another one
C22_Witness ==
    \E g \in DOMAIN games :
        LET ms == MovesOf(moves, g)
        IN  /\ games[g].game_mode = "vs_computer"
            /\ Len(ms) = 1
            /\ ms[1].player_id # games[g].player_x_id
            /\ resp.op = "move" /\ resp.game = g
            /\ resp.kind = "NotYourTurn"

\* C23: a game holds at most 9 moves; a terminal game holds at least 5 and a
\* game with 9 moves is terminal; a drawn game holds exactly 9; and a
\* vs_player game whose player to move keeps submitting a move on an empty
\* cell eventually reaches a terminal status.
C23_GameEnds ==
    /\ [](\A g \in DOMAIN games :
            LET n == Len(MovesOf(moves, g))
            IN  /\ n <= 9
                /\ games[g].status \in Terminal => n >= 5
                /\ n = 9 => games[g].status \in Terminal
                /\ games[g].status = "draw" => n = 9)
    /\ \A g \in DOMAIN Replayed(0).games :
          (GameById(games, g).game_mode = "vs_player")
              ~> (GameById(games, g).status \in Terminal)

\* a game has been won with its fifth move
C23_Witness ==
    \E g \in DOMAIN games :
        /\ games[g].game_mode = "vs_player"
        /\ games[g].status = "x_won"
        /\ Len(MovesOf(moves, g)) = 5


\* C24: a GET request for /game/history is handled by get_game_history and
\* returns the match history of the user; the route /game/{game_id} of
\* get_game_state does not capture it.
C24_HistoryRouted ==
    [][\A u \in UserIds :
        HttpGet(u, <<SegGame, SegHistory>>) =>
            /\ resp'.op = "history"
            /\ resp'.kind = "ok"]_vars

====
